---- MODULE Spec2Model ----
(***************************************************************************)
(* StoreModelValidator (react-mobx-validatorjs): a validator that holds a  *)
(* model, observes it with mobx and re-runs validatorjs on every change.   *)
(*                                                                         *)
(* The engine's fields (model, disposer, validation, validatedFields,      *)
(* dirty, config.rules, config.manual) are the state; the observable       *)
(* models live outside the engine and are mutated by arbitrary code.       *)
(* Every method of the class is an operator from an engine-and-world       *)
(* record to the record after the call, so that methods calling methods    *)
(* (setModel -> reset, modelChanged -> validateField) compose as in the    *)
(* source; the actions at the end install the record a call produces.      *)
(***************************************************************************)
EXTENDS Integers, Sequences, FiniteSets, TLC

(***************************************************************************)
(* JavaScript values a model field can hold.                               *)
(***************************************************************************)
Undefined == [t |-> "undefined", s |-> "", n |-> 0]
Null == [t |-> "null", s |-> "", n |-> 0]
Str(s) == [t |-> "string", s |-> s, n |-> 0]
Num(n) == [t |-> "number", s |-> "", n |-> n]
DateV == [t |-> "date", s |-> "2006-07-17", n |-> 0]
False == [t |-> "boolean", s |-> "false", n |-> 0]
Arr(items) == [t |-> "array", items |-> items]

Fields == {"name", "age", "email", "birthday"}

\* The fields of the model of ExampleForm: the inputs of the form write these.
FormFields == {"name", "age", "email"}

(***************************************************************************)
(* Rule expressions in parsed form: 'numeric|max:99' is the sequence       *)
(* <<Rule("numeric"), RuleMax(99)>>.                                       *)
(***************************************************************************)
Rule(name) == [name |-> name, min |-> 0, max |-> 0, req |-> ""]
RuleMax(n) == [name |-> "max", min |-> 0, max |-> n, req |-> ""]
RuleBetween(a, b) == [name |-> "between", min |-> a, max |-> b, req |-> ""]
RuleRequiredWithout(f) == [name |-> "required_without", min |-> 0, max |-> 0, req |-> f]

\* The rules of the store tests.
StoreRules ==
    [f \in Fields |->
        CASE f = "name" -> <<Rule("required")>>
          [] f = "age" -> <<Rule("numeric"), RuleMax(99)>>
          [] f = "email" -> <<Rule("email")>>
          [] f = "birthday" -> <<Rule("date"), RuleRequiredWithout("age")>>]

\* The rules of the form test.
FormRules ==
    [f \in FormFields |->
        CASE f = "name" -> <<Rule("required"), Rule("string"), RuleBetween(3, 32)>>
          [] f = "age" -> <<Rule("integer"), RuleBetween(0, 100)>>
          [] f = "email" -> <<Rule("email"), RuleMax(100)>>]

RuleSpecs == {StoreRules, FormRules}

\* A rule spec that names a rule validatorjs does not have: 'numeric|xyz'.
BadRules ==
    [f \in {"name", "age"} |->
        CASE f = "name" -> <<Rule("required")>>
          [] f = "age" -> <<Rule("numeric"), Rule("xyz")>>]

(***************************************************************************)
(* validatorjs, as far as these rules use it.                              *)
(***************************************************************************)
\* validator._objectPath(input, attribute): the own property, or undefined.
ObjectPath(input, attribute) ==
    IF attribute \in DOMAIN input THEN input[attribute] ELSE Undefined

\* A value used as a condition (if (value) ...).
Truthy(val) ==
    CASE val.t \in {"undefined", "null"} -> FALSE
      [] val.t = "string" -> Len(val.s) > 0
      [] val.t = "number" -> val.n # 0
      [] OTHER -> TRUE

\* rules.required: not undefined, not null, something left without whitespace.
Required(val) ==
    CASE val.t \in {"undefined", "null"} -> FALSE
      [] val.t = "string" -> Len(val.s) > 0
      [] OTHER -> TRUE

ImplicitRules == {"required", "required_without"}

\* The rules validatorjs has, of those a rule spec here can name.
KnownRules ==
    {"required", "required_without", "numeric", "integer", "string", "date", "email",
     "max", "between"}

\* rule.isMissed(): no function is registered under the rule's name.
IsMissed(rule) == rule.name \notin KnownRules
NumericRules == {"integer", "numeric"}

HasNumericRule(rules, attribute) ==
    \E i \in 1..Len(rules[attribute]) : rules[attribute][i].name \in NumericRules

\* validator._isValidatable: an empty value is only handed to implicit rules.
IsValidatable(rule, val) == rule.name \in ImplicitRules \/ Required(val)

\* The decimal numerals the model's strings can spell.
MaxNumeral == 101
NumeralStrings == {ToString(k) : k \in 0..MaxNumeral}
NumeralValue == [s \in NumeralStrings |-> CHOOSE k \in 0..MaxNumeral : ToString(k) = s]

\* Number(val), parseInt(val) and parseFloat(val) yield a number (not NaN) for val.
ParsesAsNumber(val) ==
    CASE val.t = "number" -> TRUE
      [] val.t = "string" -> val.s \in NumeralStrings
      [] OTHER -> FALSE

\* rule.getSize() is NaN (every comparison with it false) when SizeDefined is false.
SizeDefined(val, numeric) ==
    CASE val.t = "number" -> TRUE
      [] val.t = "string" -> IF numeric THEN ParsesAsNumber(val) ELSE TRUE
      [] OTHER -> FALSE

\* rule.getSize(): the number itself, the parsed number under a numeric rule,
\* the length of a string otherwise.
GetSize(val, numeric) ==
    CASE val.t = "number" -> val.n
      [] val.t = "string" -> IF numeric THEN NumeralValue[val.s] ELSE Len(val.s)
      [] OTHER -> 0

\* The characters of a string, one by one.
Char(str, i) == SubSeq(str, i, i)
Letters ==
    {"a", "b", "c", "d", "e", "f", "g", "h", "i", "j", "k", "l", "m", "n", "o", "p", "q",
     "r", "s", "t", "u", "v", "w", "x", "y", "z", "A", "B", "C", "D", "E", "F", "G", "H",
     "I", "J", "K", "L", "M", "N", "O", "P", "Q", "R", "S", "T", "U", "V", "W", "X", "Y",
     "Z"}
Digits == {"0", "1", "2", "3", "4", "5", "6", "7", "8", "9"}
\* [^<>()[\]\\.,;:\s@"]: what a part of the local name must not hold.
NotInLocalPart == {"<", ">", "(", ")", "[", "]", "\\", ".", ",", ";", ":", " ", "@", "\""}

\* str is parts joined by dots: no part is empty and every character of a part
\* is in chars (allowed) or not in chars (~allowed).
DotSeparated(str, chars, allowed) ==
    /\ Len(str) > 0
    /\ Char(str, 1) # "." /\ Char(str, Len(str)) # "."
    /\ \A i \in 1..Len(str) :
          IF Char(str, i) = "."
          THEN i < Len(str) => Char(str, i + 1) # "."
          ELSE (Char(str, i) \in chars) <=> allowed

\* rules.email: the regular expression of validatorjs on a string. The local
\* name is parts without special characters joined by dots, the domain is
\* labels of letters, digits and hyphens joined by dots and ends with a label
\* of two letters or more. (The quoted local name and the bracketed address
\* the expression also takes do not occur in the values here.)
IsEmail(str) ==
    \E at \in 1..Len(str) :
        /\ Char(str, at) = "@"
        /\ DotSeparated(SubSeq(str, 1, at - 1), NotInLocalPart, FALSE)
        /\ LET domain == SubSeq(str, at + 1, Len(str))
               dots == {i \in 1..Len(domain) : Char(domain, i) = "."}
           IN  /\ DotSeparated(domain, Letters \cup Digits \cup {"-"}, TRUE)
               /\ dots # {}
               /\ \E d \in dots :
                     /\ \A k \in dots : k <= d
                     /\ Len(domain) - d >= 2
                     /\ \A i \in (d + 1)..Len(domain) : Char(domain, i) \in Letters

\* The name of 100 characters the form test writes.
LongName ==
    "1234567890123456789012345678901234567890123456789012345678901234567890123456789012345678901234567890"

\* The same, with the strings the models here hold tested once and looked up.
StringsInUse == {"", "Godzilla", LongName, "hundred", "101", "god@zilla", "god@zilla.com"}
Tested == [str \in StringsInUse |-> IsEmail(str)]
Email(str) == IF str \in StringsInUse THEN Tested[str] ELSE IsEmail(str)

\* rule.validate(inputValue, ruleValue, attribute)
Validate(rule, val, attribute, input, rules) ==
    LET numeric == HasNumericRule(rules, attribute)
    IN  CASE rule.name = "required" -> Required(val)
          [] rule.name = "required_without" ->
                IF Truthy(ObjectPath(input, rule.req)) THEN TRUE ELSE Required(val)
          [] rule.name = "numeric" -> ParsesAsNumber(val)
          [] rule.name = "integer" -> ParsesAsNumber(val)
          [] rule.name = "string" -> val.t = "string"
          [] rule.name = "date" -> val.t = "date"
          [] rule.name = "email" -> val.t = "string" /\ Email(val.s)
          [] rule.name = "max" ->
                SizeDefined(val, numeric) /\ GetSize(val, numeric) <= rule.max
          [] rule.name = "between" ->
                /\ SizeDefined(val, numeric)
                /\ GetSize(val, numeric) >= rule.min
                /\ GetSize(val, numeric) <= rule.max
          [] OTHER -> TRUE

\* messages.render(rule): the English template with its placeholders replaced.
Render(rule, attribute) ==
    CASE rule.name = "required" -> "The " \o attribute \o " field is required."
      [] rule.name = "required_without" ->
            "The " \o attribute \o " field is required when " \o rule.req \o " is empty."
      [] rule.name = "numeric" -> "The " \o attribute \o " must be a number."
      [] rule.name = "integer" -> "The " \o attribute \o " must be an integer."
      [] rule.name = "string" -> "The " \o attribute \o " must be a string."
      [] rule.name = "date" -> "The " \o attribute \o " is not a valid date format."
      [] rule.name = "email" -> "The " \o attribute \o " format is invalid."
      [] rule.name = "max" ->
            "The " \o attribute \o " may not be greater than " \o ToString(rule.max) \o "."
      [] rule.name = "between" ->
            "The " \o attribute \o " field must be between " \o ToString(rule.min)
                \o " and " \o ToString(rule.max) \o "."
      [] OTHER -> "unknown"

\* The same, with the messages of the rules in use rendered once and looked up.
RulesInUse == UNION {UNION {{r[f][i] : i \in 1..Len(r[f])} : f \in DOMAIN r} : r \in RuleSpecs}
Rendered == [p \in RulesInUse \X Fields |-> Render(p[1], p[2])]
Message(rule, attribute) ==
    IF <<rule, attribute>> \in DOMAIN Rendered
    THEN Rendered[<<rule, attribute>>]
    ELSE Render(rule, attribute)

\* messages._getAttributeName(attribute): the name set with setAttributeNames,
\* or the attribute itself.
AttributeName(validator, attribute) ==
    IF attribute \in DOMAIN validator.attributeNames
    THEN validator.attributeNames[attribute]
    ELSE attribute

\* messages.render(rule) of a validator: the custom message for 'rule.attribute'
\* or for 'rule' if there is one (the custom messages here have no
\* placeholders), or else the template of the validator's language file. Only
\* the English file is spelled out: a message of another one is named by
\* language, rule and attribute name.
MessageOf(validator, rule, attribute) ==
    IF validator.customMessages = <<>> /\ validator.attributeNames = <<>>
          /\ validator.lang = "en"
    THEN Message(rule, attribute)
    ELSE LET custom == validator.customMessages
         IN  CASE rule.name \o "." \o attribute \in DOMAIN custom ->
                    custom[rule.name \o "." \o attribute]
               [] rule.name \in DOMAIN custom -> custom[rule.name]
               [] validator.lang = "en" ->
                    Render(rule, AttributeName(validator, attribute))
               [] OTHER -> validator.lang \o ":" \o rule.name \o ":"
                               \o AttributeName(validator, attribute)

\* The same with the bug of stopping at the first rule that fails.
RECURSIVE Failures_firstOnly(_, _, _)
Failures_firstOnly(attribute, validator, i) ==
    IF i > Len(validator.rules[attribute]) THEN <<>>
    ELSE LET rule == validator.rules[attribute][i]
             val == ObjectPath(validator.input, attribute)
         IN  IF /\ IsValidatable(rule, val)
                /\ ~Validate(rule, val, attribute, validator.input, validator.rules)
             THEN <<MessageOf(validator, rule, attribute)>>
             ELSE Failures_firstOnly(attribute, validator, i + 1)

\* The messages of the rules of one attribute that fail, in declared order;
\* a failing rule does not stop the rules after it.
RECURSIVE Failures(_, _, _)
Failures(attribute, validator, i) ==
    IF i > Len(validator.rules[attribute]) THEN <<>>
    ELSE LET rule == validator.rules[attribute][i]
             val == ObjectPath(validator.input, attribute)
             rest == Failures(attribute, validator, i + 1)
         IN  IF /\ IsValidatable(rule, val)
                /\ ~Validate(rule, val, attribute, validator.input, validator.rules)
             THEN <<MessageOf(validator, rule, attribute)>> \o rest
             ELSE rest

RECURSIVE SumLen(_, _)
SumLen(errs, S) ==
    IF S = {} THEN 0
    ELSE LET f == CHOOSE x \in S : TRUE IN Len(errs[f]) + SumLen(errs, S \ {f})

\* new Validator(input, rules, customMessages), made while Validator's language
\* (what Validator.useLang set last) is lang: nothing checked yet. A null input
\* is {}, custom messages that are not given are <<>>.
\* threw: check() did not return but threw an Error.
NewValidator(input, rules, customMessages, lang) ==
    [input |-> input, rules |-> rules, errors |-> <<>>, errorCount |-> 0,
     threw |-> FALSE, lang |-> lang, customMessages |-> customMessages,
     attributeNames |-> <<>>]

\* validator.setAttributeNames(attributes)
setAttributeNames(validator, attributes) ==
    [validator EXCEPT !.attributeNames = attributes]

\* check() applies a rule that is validatable for its value and is missed:
\* rule.validate then throws (the rule is skipped, as any rule that is not
\* implicit, when the value is empty).
Throws(input, rules) ==
    \E f \in DOMAIN rules : \E i \in 1..Len(rules[f]) :
        IsMissed(rules[f][i]) /\ IsValidatable(rules[f][i], ObjectPath(input, f))

\* validator.check(): errors gets a key for every attribute with a failing rule,
\* errorCount counts the failures; or it throws.
check(validator) ==
    LET all == [f \in DOMAIN validator.rules |-> Failures(f, validator, 1)]
        failed == {f \in DOMAIN all : Len(all[f]) > 0}
    IN  [validator EXCEPT !.errors = [f \in failed |-> all[f]],
                          !.errorCount = SumLen(all, failed),
                          !.threw = Throws(validator.input, validator.rules)]


(***************************************************************************)
(* The observable models. "obj" is an observable object of the declared    *)
(* shape (ExampleData: every field always present), "map" an observable    *)
(* map whose keys come and go. NoModel is the null model reference.        *)
(***************************************************************************)
Models == {"obj", "map"}
NoModel == "null"

isObservableMap(m) == m = "map"

\* An observable array given as the model: its own properties are its indices,
\* so it has none of the fields of the rules, and the changes it reports to a
\* listener carry an index and no name.
ArrayModel == "array"
ArrayIndices == {"0", "1"}
ArrayValues == {Num(12), Str("Godzilla")}

\* The values code outside the engine writes into a field, as the tests do: a
\* name that is empty, good or too long; an age that is null, a number, no
\* number or a numeral out of range; an email that is empty, malformed or well
\* formed; a birthday that is null or a date. The map holds a name only.
FieldValues(m, f) ==
    CASE f = "name" -> IF isObservableMap(m) THEN {Str("Godzilla")}
                       ELSE {Str(""), Str("Godzilla"), Str(LongName)}
      [] f = "age" -> IF isObservableMap(m) THEN {}
                      ELSE {Null, Num(12), Str("hundred"), Str("101")}
      [] f = "email" -> IF isObservableMap(m) THEN {}
                        ELSE {Str(""), Str("god@zilla"), Str("god@zilla.com")}
      [] f = "birthday" -> IF isObservableMap(m) THEN {} ELSE {Null, DateV}

\* ExampleStore.data as the store test declares it, and an empty map.
InitialContent ==
    [m \in Models \cup {ArrayModel} |->
        IF isObservableMap(m) THEN <<>>
        ELSE IF m = ArrayModel THEN [i \in {"0"} |-> Num(12)]
        ELSE [f \in Fields |-> IF f \in {"name", "email"} THEN Str("") ELSE Null]]

(***************************************************************************)
(* The engine and its world as one record e:                               *)
(*   model, disposer, validation, validatedFields, dirty  the fields of    *)
(*       the class (disposer: the model whose listener it removes);        *)
(*   rules, manual       config.rules and config.manual;                   *)
(*   content             the fields of every model;                        *)
(*   listeners           the models on which a listener of this engine is  *)
(*                       registered (what observe() did and the disposer   *)
(*                       undid);                                           *)
(*   provider, customErrors, attributeNames   config.localizationProvider  *)
(*                       (NoProvider: not set), config.customErrors and    *)
(*                       config.attributeNames (<<>>: not set);            *)
(*   lang                the language of validatorjs, global to all its    *)
(*                       validators: what Validator.useLang was given last;*)
(*   language            what language() of each provider returns now;     *)
(*   checked             history: the validation of the last check() call; *)
(*   evaluated           history: the language and the strings that the    *)
(*                       validator of the last check() call had been given;*)
(*   touched             history: the fields validated since the last      *)
(*                       clear, by the calls made (see touch/untouch);     *)
(*   exc                 an Error thrown in the call that is being made has*)
(*                       not been caught: the rest of the call is skipped; *)
(*   passes              history: the check() calls that returned in the   *)
(*                       call that is being made.                          *)
(***************************************************************************)

\* The localization providers: the NoopLocalizationProvider of the library, a
\* provider passed as an argument next to the config, and one set in the
\* config as config.localizationProvider.
NoProvider == "none"
Providers == {"noop", "argument", "config"}

\* The values language() returns: navigator.language for the noop provider,
\* the language its i18n library is in for another one ("": none, a falsy value).
Languages == {"en-US", "de", "e", ""}
InitialLanguage ==
    [p \in Providers |-> CASE p = "noop" -> "en-US" [] p = "argument" -> "de" [] p = "config" -> "de"]

\* provider.language()
language(e, p) == e.language[p]

\* provider.translate(key): the key itself for the noop provider; for another
\* provider the entry of the key in its current language, written language:key.
translate(e, p, key) ==
    IF p = "noop" THEN key ELSE language(e, p) \o ":" \o key

\* What the engine keeps of a checked validation: its errors and their count.
Result(validation) == [errors |-> validation.errors, errorCount |-> validation.errorCount]

\* What a validation was evaluated with.
Given(validation) ==
    [lang |-> validation.lang, customMessages |-> validation.customMessages,
     attributeNames |-> validation.attributeNames]

\* History only: a validation pass has just run.
ran(e, validation) ==
    [e EXCEPT !.checked = Result(validation), !.evaluated = Given(validation),
              !.passes = @ + 1]

\* throw: the statements after it do not run.
raise(e) == [e EXCEPT !.exc = TRUE]

\* History only: the calls that validate fields, and the calls that clear.
touch(e, S) == [e EXCEPT !.touched = @ \cup S]
untouch(e) == [e EXCEPT !.touched = {}]

\* translateMessageKeys with the bug of handing on the configured values.
translateMessageKeys_values(e, messages) == messages

\* translateMessageKeys(messages): every key with what the provider translates
\* the key to; the values of messages are not read.
translateMessageKeys(e, messages) ==
    IF messages # <<>> /\ e.provider # NoProvider
    THEN [key \in DOMAIN messages |-> translate(e, e.provider, key)]
    ELSE messages

\* The same with the bug of never calling useLang.
useLang_never(e) == e

\* createValidation(), what it does to validatorjs before it makes the
\* validator: useLang with the first two characters of the provider's
\* language, if that has two.
useLang(e) ==
    IF e.provider # NoProvider
    THEN LET lang == language(e, e.provider)
         IN  IF lang # "" /\ Len(lang) >= 2
             THEN [e EXCEPT !.lang = SubSeq(lang, 1, 2)]
             ELSE e
    ELSE e

\* createValidation(), the validator it returns: over the model (a map copied
\* key by key into a fresh object), with the rules of the config, the
\* translated keys of the custom errors and, if the config has attribute
\* names, their translated keys.
createValidation(e) ==
    LET customMessages == translateMessageKeys(e, e.customErrors)
        input == IF isObservableMap(e.model)
                 THEN [k \in DOMAIN e.content[e.model] |-> e.content[e.model][k]]
                 ELSE IF e.model = NoModel THEN <<>> ELSE e.content[e.model]
        validator == NewValidator(input, e.rules, customMessages, useLang(e).lang)
    IN  IF e.attributeNames # <<>>
        THEN setAttributeNames(validator, translateMessageKeys(e, e.attributeNames))
        ELSE validator

\* reset() with the bug of emptying the map while converting it.
reset_drainsMap(e) ==
    LET validation == check(createValidation(e))
        e1 == useLang(e)
    IN  IF validation.threw THEN raise(e1)
        ELSE untouch(ran([e1 EXCEPT !.validation = Result(validation),
                                    !.validatedFields = {},
                                    !.dirty = "false",
                                    !.content = IF isObservableMap(e.model)
                                                THEN [@ EXCEPT ![e.model] = <<>>]
                                                ELSE @], validation))

\* reset() with the bugs of keeping the ledger, and of deriving dirty from the
\* ledger it is about to clear.
reset_keepsLedger(e) ==
    LET validation == check(createValidation(e))
    IN  untouch(ran([e EXCEPT !.validation = Result(validation),
                              !.dirty = "false"], validation))

reset_dirtyFromLedger(e) ==
    LET validation == check(createValidation(e))
    IN  untouch(ran([e EXCEPT !.validation = Result(validation),
                              !.validatedFields = {},
                              !.dirty = IF e.validatedFields # {} THEN "true" ELSE "false"],
                    validation))

\* reset(): a pass, then no field is dirty. Nothing is assigned when check()
\* throws.
reset(e) ==
    LET validation == check(createValidation(e))
        e1 == useLang(e)
    IN  IF validation.threw THEN raise(e1)
        ELSE untouch(ran([e1 EXCEPT !.validation = Result(validation),
                                    !.validatedFields = {},
                                    !.dirty = "false"], validation))

\* setModel(model) with the bug of disposing the old listener only when a new
\* one is registered.
setModel_keepsListenerOnNull(e, m) ==
    IF e.model # m
    THEN LET e1 == [e EXCEPT !.model = m]
             e3 == IF e1.model # NoModel /\ ~e1.manual
                   THEN [e1 EXCEPT !.listeners = (@ \ {e1.disposer}) \cup {e1.model},
                                   !.disposer = e1.model]
                   ELSE e1
         IN  reset(e3)
    ELSE e

\* setModel(model) with the bug of not comparing the model with the one held.
setModel_alwaysResets(e, m) ==
    LET e1 == [e EXCEPT !.model = m]
        e2 == IF e1.disposer # NoModel
              THEN [e1 EXCEPT !.listeners = @ \ {e1.disposer}, !.disposer = NoModel]
              ELSE e1
        e3 == IF e2.model # NoModel /\ ~e2.manual
              THEN [e2 EXCEPT !.listeners = @ \cup {e2.model}, !.disposer = e2.model]
              ELSE e2
    IN  reset(e3)

\* setModel(model) with the bug of observing the model whatever config.manual says.
setModel_ignoresManual(e, m) ==
    IF e.model # m
    THEN LET e1 == [e EXCEPT !.model = m]
             e2 == IF e1.disposer # NoModel
                   THEN [e1 EXCEPT !.listeners = @ \ {e1.disposer}, !.disposer = NoModel]
                   ELSE e1
             e3 == IF e2.model # NoModel
                   THEN [e2 EXCEPT !.listeners = @ \cup {e2.model}, !.disposer = e2.model]
                   ELSE e2
         IN  reset(e3)
    ELSE e

\* setModel(model) with the bug of leaving the listener on the old model.
setModel_keepsListener(e, m) ==
    IF e.model # m
    THEN LET e1 == [e EXCEPT !.model = m]
             e3 == IF e1.model # NoModel /\ ~e1.manual
                   THEN [e1 EXCEPT !.listeners = @ \cup {e1.model}, !.disposer = e1.model]
                   ELSE e1
         IN  reset(e3)
    ELSE e

\* setModel(model): a new reference replaces the old one, the old listener is
\* disposed, a new one registered unless manual, and reset() runs.
setModel(e, m) ==
    IF e.model # m
    THEN LET e1 == [e EXCEPT !.model = m]
             e2 == IF e1.disposer # NoModel
                   THEN [e1 EXCEPT !.listeners = @ \ {e1.disposer}, !.disposer = NoModel]
                   ELSE e1
             e3 == IF e2.model # NoModel /\ ~e2.manual
                   THEN [e2 EXCEPT !.listeners = @ \cup {e2.model}, !.disposer = e2.model]
                   ELSE e2
         IN  reset(e3)
    ELSE e

\* setRules(rules) with the bug of taking the old rules back when reset() throws.
setRules_rollsBack(e, r) ==
    LET e1 == reset([e EXCEPT !.rules = r])
    IN  IF e1.exc THEN [e1 EXCEPT !.rules = e.rules] ELSE e1

\* setRules(rules) with the bug of storing the rules without running reset().
setRules_noReset(e, r) == [e EXCEPT !.rules = r]

\* setRules(rules)
setRules(e, r) == reset([e EXCEPT !.rules = r])

\* showErrorsOnField(field) with the bug of asking for an error as well.
showErrorsOnField_needsError(e, field) ==
    field \in e.validatedFields /\ field \in DOMAIN e.validation.errors

\* The getters.
errors(e) == e.validation.errors
errorCount(e) == e.validation.errorCount
isValid(e) == errorCount(e) = 0
showErrorsOnField(e, field) == field \in e.validatedFields
fieldsThatMayShowErrors(e) == e.validatedFields
getModel(e) == e.model
pristine(e) == e.dirty # "true"

\* The errorsRenderer props of a wrapper: none given (""), errs => 'custom:' +
\* errs.length, and errs => null.
ErrorsRenderers == {"", "count", "nothing"}

\* props.errorsRenderer(errors)
errorsRenderer(props, items) ==
    IF props.errorsRenderer = "count" THEN Str("custom:" \o ToString(Len(items))) ELSE Null

\* ValidationWrapper.renderErrors(errors): null when there are no errors to
\* render, what the errorsRenderer of the props returns when there is one,
\* and else one 'invalid-msg' div for each message.
renderErrors(props, errs) ==
    IF errs.t \in {"undefined", "null"} THEN Null
    ELSE IF props.errorsRenderer # "" THEN errorsRenderer(props, errs.items)
    ELSE Arr([i \in 1..Len(errs.items) |->
                [className |-> "invalid-msg", key |-> errs.items[i], text |-> errs.items[i]]])

\* render() with the bug of not asking the validator whether the field may
\* show errors.
render_ignoresLedger(e, props) ==
    LET showErrors == props.field \in DOMAIN e.validation.errors
    IN  [className |-> IF showErrors
                       THEN IF props.errorClassName # "" THEN props.errorClassName
                            ELSE "invalid-field"
                       ELSE "null",
         errors |-> IF showErrors
                    THEN renderErrors(props, Arr(e.validation.errors[props.field]))
                    ELSE False]

\* ValidationWrapper.render(): the class of the div around the children, and
\* what is rendered below it (false when showErrors is false). A prop that is
\* not given is "".
render(e, props) ==
    LET showErrors == /\ showErrorsOnField(e, props.field)
                      /\ props.field \in DOMAIN e.validation.errors
    IN  [className |-> IF showErrors
                       THEN IF props.errorClassName # "" THEN props.errorClassName
                            ELSE "invalid-field"
                       ELSE "null",
         errors |-> IF showErrors
                    THEN renderErrors(props, Arr(e.validation.errors[props.field]))
                    ELSE False]

\* markDirty(field)
\* markDirty with the bug of not setting the dirty flag.
markDirty_noFlag(e, field) ==
    IF field \notin e.validatedFields
    THEN [e EXCEPT !.validatedFields = @ \cup {field}]
    ELSE e

markDirty(e, field) ==
    IF field \notin e.validatedFields
    THEN [e EXCEPT !.validatedFields = @ \cup {field}, !.dirty = "true"]
    ELSE e

\* fieldValidated with the bug of unmarking a field that has no error any more.
fieldValidated_unmarksValid(e, field, validation) ==
    LET hasErrors == field \in DOMAIN validation.errors
        e1 == IF hasErrors THEN markDirty(e, field)
              ELSE [e EXCEPT !.validatedFields = @ \ {field}]
        e2 == [e1 EXCEPT !.validation = Result(validation)]
    IN  [e |-> e2, ret |-> ~hasErrors]

\* fieldValidated with the bug of returning whether the whole model is valid.
fieldValidated_returnsIsValid(e, field, validation) ==
    LET e1 == markDirty(e, field)
        e2 == [e1 EXCEPT !.validation = Result(validation)]
    IN  [e |-> e2, ret |-> errorCount(e2) = 0]

\* fieldValidated with the bug of not storing the new validation.
fieldValidated_keepsOld(e, field, validation) ==
    LET hasErrors == field \in DOMAIN validation.errors
        e1 == markDirty(e, field)
    IN  [e |-> e1, ret |-> ~hasErrors]

\* fieldValidated(field, validation): the engine after it, and what it returns.
fieldValidated(e, field, validation) ==
    LET hasErrors == field \in DOMAIN validation.errors
        e1 == markDirty(e, field)
        e2 == [e1 EXCEPT !.validation = Result(validation)]
    IN  [e |-> e2, ret |-> ~hasErrors]

\* validateField(field) with the bug of checking the one field only: the errors
\* of the other fields are those of the validation stored before.
validateField_thisFieldOnly(e, field) ==
    LET validation == check(createValidation(e))
        old == e.validation.errors
        keys == IF field \in DOMAIN validation.errors
                THEN DOMAIN old \cup {field} ELSE DOMAIN old \ {field}
        merged == [f \in keys |-> IF f = field THEN validation.errors[f] ELSE old[f]]
        partial == [validation EXCEPT !.errors = merged,
                                      !.errorCount = SumLen(merged, keys)]
    IN  fieldValidated(touch(ran(e, validation), {field}), field, partial)

\* validateField(field) with the bug of marking the field before the check.
validateField_marksFirst(e, field) ==
    LET validation == check(createValidation(e))
        e1 == markDirty(useLang(e), field)
    IN  IF validation.threw THEN [e |-> raise(e1), ret |-> FALSE]
        ELSE fieldValidated(touch(ran(e1, validation), {field}), field, validation)

\* validateField(field) with the bug of catching what check() throws and
\* reporting the field as valid.
validateField_catches(e, field) ==
    LET validation == check(createValidation(e))
    IN  IF validation.threw THEN [e |-> e, ret |-> TRUE]
        ELSE fieldValidated(touch(ran(e, validation), {field}), field, validation)

\* validateField(field): fieldValidated is not reached when check() throws.
validateField(e, field) ==
    LET validation == check(createValidation(e))
        e1 == useLang(e)
    IN  IF validation.threw THEN [e |-> raise(e1), ret |-> FALSE]
        ELSE fieldValidated(touch(ran(e1, validation), {field}), field, validation)

\* for (let field of keys) this.markDirty(field)
RECURSIVE markDirtyAll(_, _)
markDirtyAll(e, keys) ==
    IF keys = {} THEN e
    ELSE LET field == CHOOSE k \in keys : TRUE
         IN  markDirtyAll(markDirty(e, field), keys \ {field})

\* formValidated with the bug of marking every field that has a rule.
formValidated_marksRuleFields(e, validation) ==
    LET e1 == markDirtyAll(e, DOMAIN e.rules)
        e2 == [e1 EXCEPT !.validation = Result(validation)]
    IN  [e |-> e2, ret |-> errorCount(e2) = 0]

\* formValidated with the bugs of not marking the fields with errors, and of
\* reading errorCount before the new validation is stored.
formValidated_marksNothing(e, validation) ==
    LET e2 == [e EXCEPT !.validation = Result(validation)]
    IN  [e |-> e2, ret |-> errorCount(e2) = 0]

formValidated_staleCount(e, validation) ==
    LET e1 == markDirtyAll(e, DOMAIN validation.errors)
        e2 == [e1 EXCEPT !.validation = Result(validation)]
    IN  [e |-> e2, ret |-> errorCount(e1) = 0]

\* formValidated(validation)
formValidated(e, validation) ==
    LET e1 == markDirtyAll(e, DOMAIN validation.errors)
        e2 == [e1 EXCEPT !.validation = Result(validation)]
    IN  [e |-> e2, ret |-> errorCount(e2) = 0]

\* validateForm(): formValidated is not reached when check() throws.
validateForm(e) ==
    LET validation == check(createValidation(e))
        e1 == useLang(e)
    IN  IF validation.threw THEN [e |-> raise(e1), ret |-> FALSE]
        ELSE formValidated(touch(ran(e1, validation), DOMAIN validation.errors), validation)

\* modelChanged with the bug of reacting to added fields only.
modelChanged_addOnly(e, change) ==
    IF change.type = "add"
    THEN IF change.name # ""
         THEN validateField(e, change.name).e
         ELSE validateForm(e).e
    ELSE e

\* modelChanged with the bug of ignoring a change that names no field.
modelChanged_namedOnly(e, change) ==
    IF (change.type = "update" \/ change.type = "add") /\ change.name # ""
    THEN validateField(e, change.name).e
    ELSE e

\* modelChanged(change): the listener registered by setModel. A change without
\* a name has name "": objects and maps name the field, an array does not.
modelChanged(e, change) ==
    IF change.type = "update" \/ change.type = "add"
    THEN IF change.name # ""
         THEN validateField(e, change.name).e
         ELSE validateForm(e).e
    ELSE e

\* mobx: an observable that changed tells its listeners, before the write returns.
notify(e, m, change) == IF m \in e.listeners THEN modelChanged(e, change) ELSE e

\* new StoreModelValidator(config): the fields as declared, validatorjs in its
\* default language, then the constructor.
Unchecked(config) == NewValidator(<<>>, config.rules, <<>>, "en")

Declared(config) ==
    [model |-> NoModel, disposer |-> NoModel, validatedFields |-> {},
     dirty |-> "undefined", validation |-> Result(Unchecked(config)),
     rules |-> config.rules, manual |-> config.manual,
     provider |-> config.localizationProvider,
     customErrors |-> config.customErrors, attributeNames |-> config.attributeNames,
     lang |-> "en", language |-> InitialLanguage,
     content |-> InitialContent, listeners |-> {},
     checked |-> Result(Unchecked(config)), evaluated |-> Given(Unchecked(config)),
     touched |-> {}, exc |-> FALSE, passes |-> 0]

\* The constructor with the bug of not checking the validation it creates when
\* there is no model.
constructor_noCheck(config) ==
    LET e == Declared(config)
    IN  IF config.model # NoModel
        THEN setModel(e, config.model)
        ELSE LET validation == createValidation(e)
             IN  ran([e EXCEPT !.validation = Result(validation)], validation)

\* constructor(config): the config gets the noop provider if it has none.
constructor(config) ==
    LET e0 == Declared(config)
        e == IF e0.provider = NoProvider THEN [e0 EXCEPT !.provider = "noop"] ELSE e0
    IN  IF config.model # NoModel
        THEN setModel(e, config.model)
        ELSE LET validation == check(createValidation(e))
                 e1 == useLang(e)
             IN  IF validation.threw THEN raise(e1)
                 ELSE ran([e1 EXCEPT !.validation = Result(validation)], validation)

\* new StoreModelValidator(config, localizationProvider), as withValidator calls
\* it: the constructor has the one parameter config, a second argument is
\* not read.
New(config, localizationProvider) == constructor(config)

(***************************************************************************)
(* The state: the record's fields as variables, and last, the call that    *)
(* produced the state (history: its name, the model held when it was made, *)
(* the model and the field it was about, what it returned, and asked: the  *)
(* rules setRules was called with, for any other call the rules in force   *)
(* when it was made, and threw: the call threw instead of returning).      *)
(* No call is in progress in a state: exc is FALSE.                        *)
(* An action binds the record its call produces with \E over the set of    *)
(* that one record, so that the call is evaluated once.                    *)
(* given is history too: the localization provider that was passed to the  *)
(* constructor next to the config, NoProvider if none was.                 *)
(***************************************************************************)
VARIABLES model, disposer, validation, validatedFields, dirty, rules, manual,
          provider, customErrors, attributeNames, lang, languages,
          content, listeners, checked, evaluated, touched, last, given

vars == <<model, disposer, validation, validatedFields, dirty, rules, manual,
          provider, customErrors, attributeNames, lang, languages,
          content, listeners, checked, evaluated, touched, last, given>>

Cur ==
    [model |-> model, disposer |-> disposer, validation |-> validation,
     validatedFields |-> validatedFields, dirty |-> dirty, rules |-> rules,
     manual |-> manual, provider |-> provider, customErrors |-> customErrors,
     attributeNames |-> attributeNames, lang |-> lang, language |-> languages,
     content |-> content, listeners |-> listeners,
     checked |-> checked, evaluated |-> evaluated, touched |-> touched,
     exc |-> FALSE, passes |-> 0]

Install(e) ==
    /\ model' = e.model
    /\ disposer' = e.disposer
    /\ validation' = e.validation
    /\ validatedFields' = e.validatedFields
    /\ dirty' = e.dirty
    /\ rules' = e.rules
    /\ manual' = e.manual
    /\ content' = e.content
    /\ listeners' = e.listeners
    /\ checked' = e.checked
    /\ touched' = e.touched
    /\ provider' = e.provider
    /\ customErrors' = e.customErrors
    /\ attributeNames' = e.attributeNames
    /\ lang' = e.lang
    /\ languages' = e.language
    /\ evaluated' = e.evaluated
    /\ given' = given

Called(op, target, field, ret, e) ==
    [op |-> op, from |-> model, target |-> target, field |-> field, ret |-> ret,
     asked |-> rules, threw |-> e.exc, passes |-> e.passes]

\* The configs of the tests: no provider, no custom errors, no attribute names,
\* manual not set.
Configs ==
    [model : Models \cup {NoModel}, rules : {StoreRules}, manual : {FALSE},
     localizationProvider : {NoProvider}, customErrors : {<<>>},
     attributeNames : {<<>>}]

\* The engine has been constructed with one of the configs and one of the
\* providers as second argument; a constructor that throws leaves no engine.
Constructed(configs, providers) ==
    \E config \in configs, localizationProvider \in providers :
        \E e \in {New(config, localizationProvider)} :
            /\ ~e.exc
            /\ given = localizationProvider
            /\ provider = e.provider
            /\ customErrors = e.customErrors
            /\ attributeNames = e.attributeNames
            /\ lang = e.lang
            /\ languages = e.language
            /\ evaluated = e.evaluated
            /\ model = e.model
            /\ disposer = e.disposer
            /\ validation = e.validation
            /\ validatedFields = e.validatedFields
            /\ dirty = e.dirty
            /\ rules = e.rules
            /\ manual = e.manual
            /\ content = e.content
            /\ listeners = e.listeners
            /\ checked = e.checked
            /\ touched = e.touched
            /\ last = [op |-> "new", from |-> NoModel, target |-> config.model,
                       field |-> "", ret |-> TRUE, asked |-> config.rules,
                       threw |-> FALSE, passes |-> e.passes]

Init == Constructed(Configs, {NoProvider})

SetModel(m) ==
    \E e \in {setModel(Cur, m)} :
        /\ Install(e)
        /\ last' = Called("setModel", m, "", TRUE, e)

SetRules(r) ==
    \E e \in {setRules(Cur, r)} :
        /\ Install(e)
        /\ last' = [Called("setRules", model, "", TRUE, e) EXCEPT !.asked = r]

Reset ==
    \E e \in {reset(Cur)} :
        /\ Install(e)
        /\ last' = Called("reset", model, "", TRUE, e)

ValidateField(field) ==
    \E r \in {validateField(Cur, field)} :
        /\ Install(r.e)
        /\ last' = Called("validateField", model, field, r.ret, r.e)

ValidateForm ==
    \E r \in {validateForm(Cur)} :
        /\ Install(r.e)
        /\ last' = Called("validateForm", model, "", r.ret, r.e)

\* Code outside the engine writes a new value into a field a model has.
Update(m, f, v) ==
    /\ f \in DOMAIN content[m]
    /\ content[m][f] # v
    /\ LET e1 == [Cur EXCEPT !.content[m][f] = v]
       IN  \E e2 \in {notify(e1, m, [type |-> "update", name |-> f])} :
           /\ Install(e2)
           /\ last' = Called("update", m, f, TRUE, e2)

\* Code outside the engine sets a key the map does not have.
Add(m, f, v) ==
    /\ isObservableMap(m)
    /\ f \notin DOMAIN content[m]
    /\ LET added == [k \in DOMAIN content[m] \cup {f} |->
                        IF k = f THEN v ELSE content[m][k]]
           e1 == [Cur EXCEPT !.content[m] = added]
       IN  \E e2 \in {notify(e1, m, [type |-> "add", name |-> f])} :
           /\ Install(e2)
           /\ last' = Called("add", m, f, TRUE, e2)

\* Code outside the engine deletes a key of the map.
Delete(m, f) ==
    /\ isObservableMap(m)
    /\ f \in DOMAIN content[m]
    /\ LET left == [k \in DOMAIN content[m] \ {f} |-> content[m][k]]
           e1 == [Cur EXCEPT !.content[m] = left]
       IN  \E e2 \in {notify(e1, m, [type |-> "delete", name |-> f])} :
           /\ Install(e2)
           /\ last' = Called("delete", m, f, TRUE, e2)

Next ==
    \/ \E m \in Models \cup {NoModel} : SetModel(m)
    \/ \E r \in RuleSpecs : SetRules(r)
    \/ Reset
    \/ \E field \in Fields : ValidateField(field)
    \/ ValidateForm
    \/ \E m \in Models, f \in Fields : \E v \in FieldValues(m, f) : Update(m, f, v)
    \/ \E m \in Models, f \in Fields : \E v \in FieldValues(m, f) : Add(m, f, v)
    \/ \E m \in Models, f \in Fields : Delete(m, f)

Spec == Init /\ [][Next]_vars

(***************************************************************************)
(* The engine with a rule spec that can make check() throw, over the       *)
(* observable object alone.                                                *)
(***************************************************************************)
FaultyRuleSpecs == {StoreRules, BadRules}

FaultyConfigs ==
    [model : {"obj", NoModel}, rules : FaultyRuleSpecs, manual : BOOLEAN,
     localizationProvider : {NoProvider}, customErrors : {<<>>},
     attributeNames : {<<>>}]

InitFaulty == Constructed(FaultyConfigs, {NoProvider})

NextFaulty ==
    \/ \E m \in {"obj", NoModel} : SetModel(m)
    \/ \E r \in FaultyRuleSpecs : SetRules(r)
    \/ Reset
    \/ \E field \in Fields : ValidateField(field)
    \/ ValidateForm
    \/ \E f \in Fields : \E v \in FieldValues("obj", f) : Update("obj", f, v)

SpecFaulty == InitFaulty /\ [][NextFaulty]_vars

(***************************************************************************)
(* The engine and code that writes to the map fieldsThatMayShowErrors      *)
(* returned. The getter returns this.validatedFields itself, so Map.set,   *)
(* Map.delete and Map.clear on what it returned act on the engine's map.   *)
(***************************************************************************)
viewSet(e, field) == [e EXCEPT !.validatedFields = fieldsThatMayShowErrors(e) \cup {field}]
viewDelete(e, field) == [e EXCEPT !.validatedFields = fieldsThatMayShowErrors(e) \ {field}]
viewClear(e) == [e EXCEPT !.validatedFields = {}]

ViewSet(field) ==
    /\ field \notin validatedFields
    /\ \E e \in {viewSet(Cur, field)} :
        /\ Install(e)
        /\ last' = Called("view.set", model, field, TRUE, e)

ViewDelete(field) ==
    /\ field \in validatedFields
    /\ \E e \in {viewDelete(Cur, field)} :
        /\ Install(e)
        /\ last' = Called("view.delete", model, field, TRUE, e)

ViewClear ==
    /\ validatedFields # {}
    /\ \E e \in {viewClear(Cur)} :
        /\ Install(e)
        /\ last' = Called("view.clear", model, "", TRUE, e)

ViewConfigs ==
    [model : {"obj", NoModel}, rules : {StoreRules}, manual : {FALSE},
     localizationProvider : {NoProvider}, customErrors : {<<>>},
     attributeNames : {<<>>}]

InitView == Constructed(ViewConfigs, {NoProvider})

NextView ==
    \/ \E m \in {"obj", NoModel} : SetModel(m)
    \/ Reset
    \/ \E field \in Fields : ValidateField(field)
    \/ ValidateForm
    \/ \E f \in FormFields : \E v \in FieldValues("obj", f) : Update("obj", f, v)
    \/ \E field \in Fields : ViewSet(field)
    \/ \E field \in Fields : ViewDelete(field)
    \/ ViewClear

SpecView == InitView /\ [][NextView]_vars

(***************************************************************************)
(* The engine with localization: a provider may be passed to the           *)
(* constructor or set in the config, the config may have custom errors and *)
(* attribute names, the language of the config's provider changes, and     *)
(* other engines, which share validatorjs, run their passes.               *)
(***************************************************************************)
CustomErrors == [k \in {"required", "numeric.age"} |-> "This is wrong."]
AttributeNames == [k \in {"name"} |-> "Name"]

LocaleConfigs ==
    [model : {"obj"}, rules : {StoreRules}, manual : {FALSE},
     localizationProvider : {NoProvider, "config"},
     customErrors : {<<>>, CustomErrors}, attributeNames : {<<>>, AttributeNames}]

\* The i18n library behind a provider switches to another language.
setLanguage(e, p, l) == [e EXCEPT !.language[p] = l]

\* A pass of another engine, whose provider is in language l, calls useLang.
otherUseLang(e, l) ==
    IF l # "" /\ Len(l) >= 2 THEN [e EXCEPT !.lang = SubSeq(l, 1, 2)] ELSE e

SetLanguage(p, l) ==
    /\ languages[p] # l
    /\ \E e \in {setLanguage(Cur, p, l)} :
        /\ Install(e)
        /\ last' = Called("setLanguage", model, "", TRUE, e)

OtherUseLang(l) ==
    /\ \E e \in {otherUseLang(Cur, l)} :
        /\ e.lang # lang
        /\ Install(e)
        /\ last' = Called("otherUseLang", model, "", TRUE, e)

InitLocale == Constructed(LocaleConfigs, {NoProvider, "argument"})

NextLocale ==
    \/ \E m \in {"obj", NoModel} : SetModel(m)
    \/ Reset
    \/ \E field \in {"name", "age"} : ValidateField(field)
    \/ ValidateForm
    \/ \E v \in FieldValues("obj", "age") : Update("obj", "age", v)
    \/ \E l \in Languages : SetLanguage("config", l)
    \/ \E l \in Languages : OtherUseLang(l)

SpecLocale == InitLocale /\ [][NextLocale]_vars

(***************************************************************************)
(* The engine over the three kinds of observable: the object reports named *)
(* updates, the map named additions and deletions, the array updates       *)
(* without a name and splices.                                             *)
(***************************************************************************)
\* Code outside the engine assigns an element of the array.
ArrayUpdate(m, i, v) ==
    /\ m = ArrayModel
    /\ i \in DOMAIN content[m]
    /\ content[m][i] # v
    /\ LET e1 == [Cur EXCEPT !.content[m][i] = v]
       IN  \E e2 \in {notify(e1, m, [type |-> "update", name |-> ""])} :
           /\ Install(e2)
           /\ last' = Called("update", m, "", TRUE, e2)

\* Code outside the engine pushes an element onto the array.
ArrayPush(m, v) ==
    /\ m = ArrayModel
    /\ \E i \in ArrayIndices \ DOMAIN content[m] :
          /\ \A k \in ArrayIndices \ DOMAIN content[m] : i = k
          /\ LET pushed == [k \in DOMAIN content[m] \cup {i} |->
                               IF k = i THEN v ELSE content[m][k]]
                 e1 == [Cur EXCEPT !.content[m] = pushed]
             IN  \E e2 \in {notify(e1, m, [type |-> "splice", name |-> ""])} :
                 /\ Install(e2)
                 /\ last' = Called("splice", m, "", TRUE, e2)

\* Code outside the engine pops the last element of the array.
ArrayPop(m) ==
    /\ m = ArrayModel
    /\ "1" \in DOMAIN content[m]
    /\ LET popped == [k \in DOMAIN content[m] \ {"1"} |-> content[m][k]]
           e1 == [Cur EXCEPT !.content[m] = popped]
       IN  \E e2 \in {notify(e1, m, [type |-> "splice", name |-> ""])} :
           /\ Install(e2)
           /\ last' = Called("splice", m, "", TRUE, e2)

NotifyModels == Models \cup {ArrayModel}

NotifyConfigs ==
    [model : NotifyModels \cup {NoModel}, rules : {StoreRules}, manual : {FALSE},
     localizationProvider : {NoProvider}, customErrors : {<<>>},
     attributeNames : {<<>>}]

InitNotify == Constructed(NotifyConfigs, {NoProvider})

NextNotify ==
    \/ \E m \in NotifyModels \cup {NoModel} : SetModel(m)
    \/ Reset
    \/ \E field \in {"name", "age"} : ValidateField(field)
    \/ ValidateForm
    \/ \E v \in FieldValues("obj", "name") : Update("obj", "name", v)
    \/ \E f \in Fields : \E v \in FieldValues("map", f) : Add("map", f, v)
    \/ \E f \in Fields : Delete("map", f)
    \/ \E i \in ArrayIndices, v \in ArrayValues : ArrayUpdate(ArrayModel, i, v)
    \/ ArrayPush(ArrayModel, Num(12))
    \/ ArrayPop(ArrayModel)

SpecNotify == InitNotify /\ [][NextNotify]_vars

(***************************************************************************)
(* The engine whose config the caller keeps and writes: config.manual is   *)
(* read by every setModel that is given a new model.                       *)
(***************************************************************************)
setManual(e, b) == [e EXCEPT !.manual = b]

\* Code outside the engine assigns config.manual.
SetManual(b) ==
    /\ manual # b
    /\ \E e \in {setManual(Cur, b)} :
        /\ Install(e)
        /\ last' = Called("setManual", model, "", TRUE, e)

ManualConfigs ==
    [model : {"obj", NoModel}, rules : {StoreRules}, manual : BOOLEAN,
     localizationProvider : {NoProvider}, customErrors : {<<>>},
     attributeNames : {<<>>}]

InitManual == Constructed(ManualConfigs, {NoProvider})

NextManual ==
    \/ \E m \in {"obj", NoModel} : SetModel(m)
    \/ \E b \in BOOLEAN : SetManual(b)
    \/ \E r \in RuleSpecs : SetRules(r)
    \/ Reset
    \/ \E field \in Fields : ValidateField(field)
    \/ ValidateForm
    \/ \E f \in FormFields : \E v \in FieldValues("obj", f) : Update("obj", f, v)

SpecManual == InitManual /\ [][NextManual]_vars

(***************************************************************************)
(* The engine next to another instance made from the same config object,   *)
(* as two mounts of one withValidator component class are: what the other  *)
(* instance writes into the config, and into validatorjs, this one reads.  *)
(***************************************************************************)
\* setRules(rules) of the other instance: this.config.rules = rules assigns the
\* rules of the one config; its reset() works on fields of its own.
otherSetRules(e, r) == useLang([e EXCEPT !.rules = r])

\* A pass of the other instance (its construction, reset, validateField or
\* validateForm): createValidation reads the config and calls useLang; what it
\* assigns are fields of its own.
otherPass(e) == useLang(e)

OtherSetRules(r) ==
    /\ r # rules
    /\ \E e \in {otherSetRules(Cur, r)} :
        /\ Install(e)
        /\ last' = Called("other.setRules", model, "", TRUE, e)

OtherPass ==
    \E e \in {otherPass(Cur)} :
        /\ Install(e)
        /\ last' = Called("other.pass", model, "", TRUE, e)

SharedConfigs ==
    [model : {"obj", NoModel}, rules : RuleSpecs, manual : {FALSE},
     localizationProvider : {NoProvider}, customErrors : {<<>>},
     attributeNames : {<<>>}]

InitShared == Constructed(SharedConfigs, {NoProvider})

NextShared ==
    \/ \E m \in {"obj", NoModel} : SetModel(m)
    \/ \E r \in RuleSpecs : SetRules(r)
    \/ Reset
    \/ \E field \in Fields : ValidateField(field)
    \/ ValidateForm
    \/ \E f \in {"name", "age"} : \E v \in FieldValues("obj", f) : Update("obj", f, v)
    \/ \E r \in RuleSpecs : OtherSetRules(r)
    \/ OtherPass

SpecShared == InitShared /\ [][NextShared]_vars

(***************************************************************************)
(* What the claims are stated with.                                        *)
(***************************************************************************)
\* The result of evaluating the model held now against the rules set now.
Fresh == Result(check(createValidation(Cur)))

\* The last step wrote a field of the model the engine holds.
WroteHeld(kinds) == last.op \in kinds /\ last.target = model /\ model # NoModel

\* C1: without manual, the stored result (errors per field and errorCount) is in
\* every reachable state the evaluation of the current model against the
\* current rules, whatever was done to the model, removing a field included.
C1_StoredResultIsCurrent == ~manual => validation = Fresh

\* C2: isValid is true exactly when errorCount is 0, and both are those of the
\* validation pass that ran last, whichever call ran it (not of the last
\* validateForm only).
C2_IsValidIffNoErrors ==
    /\ isValid(Cur) <=> errorCount(Cur) = 0
    /\ errorCount(Cur) = checked.errorCount
    /\ isValid(Cur) <=> checked.errorCount = 0

\* A field-level pass has just left the field valid and the model invalid.
C2_Witness ==
    /\ last.op = "validateField" /\ last.ret
    /\ ~isValid(Cur) /\ errorCount(Cur) > 0

\* C3: showErrorsOnField(f) is true exactly for the fields validated since the
\* last clear (the dirty-field ledger), whether or not they have an error.
C3_ShowIffInLedger ==
    \A f \in Fields : showErrorsOnField(Cur, f) <=> f \in touched

\* One field has an error and is not shown, another is shown and has none.
C3_Witness ==
    \E f, g \in Fields :
        /\ f \in DOMAIN errors(Cur) /\ f \notin touched /\ ~showErrorsOnField(Cur, f)
        /\ g \notin DOMAIN errors(Cur) /\ g \in touched /\ showErrorsOnField(Cur, g)

\* C4: when validateForm() has returned, every field with an error in the
\* result of the current model is in the ledger.
C4_FormMarksErrors ==
    last.op = "validateForm" => DOMAIN Fresh.errors \subseteq fieldsThatMayShowErrors(Cur)

\* validateForm() on the engine built without a model: both fields with an
\* error are in the ledger, and nothing else is.
C4_Witness ==
    /\ last.op = "validateForm"
    /\ DOMAIN Fresh.errors = {"name", "birthday"}
    /\ fieldsThatMayShowErrors(Cur) = {"name", "birthday"}

\* C5 as claimed: when setModel(m) has returned the ledger is empty, for every m.
C5_SetModelAlwaysClears ==
    last.op = "setModel" => fieldsThatMayShowErrors(Cur) = {} /\ pristine(Cur)

\* C5 as amended: when setModel(m) has returned, for an m that is not the model
\* held before, the ledger is empty and the engine pristine.
C5_NewModelClears ==
    (last.op = "setModel" /\ last.from # last.target) =>
        fieldsThatMayShowErrors(Cur) = {} /\ pristine(Cur)

\* A model has replaced another one that has the same errors, none of them shown.
C5_Witness ==
    /\ last.op = "setModel" /\ last.from # last.target
    /\ last.from # NoModel /\ last.target # NoModel
    /\ Fresh.errors # <<>>
    /\ check(createValidation([Cur EXCEPT !.model = last.from])).errors = Fresh.errors
    /\ fieldsThatMayShowErrors(Cur) = {}

\* The rules the input fails, each with its attribute and its place.
FailingRules(input, rs) ==
    {p \in UNION {{<<f, i>> : i \in 1..Len(rs[f])} : f \in DOMAIN rs} :
        /\ IsValidatable(rs[p[1]][p[2]], ObjectPath(input, p[1]))
        /\ ~Validate(rs[p[1]][p[2]], ObjectPath(input, p[1]), p[1], input, rs)}

\* The field values the engine hands to the rules now.
Input == createValidation(Cur).input

\* C6: without manual, when an update or an add of field f of the held model
\* has returned, the stored result is that of the model as written, isValid is
\* false if a rule is violated, and f is in the ledger.
C6_WriteValidatesAtOnce ==
    (~manual /\ WroteHeld({"update", "add"})) =>
        /\ validation = Fresh
        /\ FailingRules(Input, rules) # {} => ~isValid(Cur)
        /\ last.field \in fieldsThatMayShowErrors(Cur)

\* age has just been set to "hundred" under the rule numeric|max:99.
C6_Witness ==
    /\ ~manual /\ WroteHeld({"update"}) /\ last.field = "age"
    /\ rules = StoreRules
    /\ content[model]["age"] = Str("hundred")
    /\ ~isValid(Cur)
    /\ errors(Cur)["age"][1] = "The age must be a number."
    /\ showErrorsOnField(Cur, "age")

\* C7: with manual no listener is registered, and a step that writes a model
\* leaves the result, the ledger and the dirty flag as they were.
C7_ManualWritesChangeNothing ==
    /\ [](manual => listeners = {} /\ disposer = NoModel)
    /\ [][(manual /\ content' # content) =>
            UNCHANGED <<validation, validatedFields, dirty>>]_vars

\* With manual, the held model was written and the stored result is not that
\* of the model any more.
C7_Witness ==
    /\ manual /\ WroteHeld({"update", "add", "delete"})
    /\ validation # Fresh
    /\ errorCount(Cur) # Fresh.errorCount

\* The last step was a pass for one field: validateField(f), or a write of f
\* that the listener was told of.
FieldPass == last.op = "validateField" \/ (~manual /\ WroteHeld({"update", "add"}))

\* C8: a pass for field f stores the errors of every field of the current
\* model, and adds f and nothing else to the ledger.
C8_FieldPassChecksWholeModel ==
    /\ [](FieldPass => errors(Cur) = Fresh.errors /\ errorCount(Cur) = Fresh.errorCount)
    /\ [][FieldPass' => validatedFields' = validatedFields \cup {last'.field}]_vars

\* Setting age to null has made birthday required: the error of birthday is
\* stored, and age alone is in the ledger.
C8_Witness ==
    /\ ~manual /\ WroteHeld({"update"}) /\ last.field = "age"
    /\ content[model]["age"] = Null
    /\ "birthday" \in DOMAIN errors(Cur)
    /\ errors(Cur)["birthday"] = <<"The birthday field is required when age is empty.">>
    /\ fieldsThatMayShowErrors(Cur) = {"age"}

\* C9: validateForm() returns true exactly when the current model fails no rule
\* of the current rules; what it returns is isValid, and errorCount is the
\* number of failed rules.
C9_FormReturnsValidity ==
    last.op = "validateForm" =>
        /\ last.ret <=> FailingRules(Input, rules) = {}
        /\ last.ret <=> isValid(Cur)
        /\ errorCount(Cur) = Cardinality(FailingRules(Input, rules))

\* validateForm() on a model whose only fault is the empty name.
C9_Witness ==
    /\ last.op = "validateForm" /\ ~last.ret
    /\ model # NoModel
    /\ errorCount(Cur) = 1
    /\ errors(Cur) = [f \in {"name"} |-> <<"The name field is required.">>]

\* The record of a call that has returned, as the next call finds it: the
\* count of the passes of the call is not kept.
AtRest(e) == [e EXCEPT !.passes = 0]

\* C10: a second reset() changes nothing: ledger, stored result, model
\* reference and listener are those the first one left.
C10_ResetIdempotent ==
    /\ AtRest(reset(reset(Cur))) = AtRest(reset(Cur))
    /\ last.op = "reset" => AtRest(reset(Cur)) = Cur

\* reset() has run on a held model with errors, and running it again gives
\* this very state.
C10_Witness ==
    /\ last.op = "reset" /\ model # NoModel
    /\ errors(Cur) # <<>>
    /\ AtRest(reset(Cur)) = Cur

\* C11: when setRules(r) has returned the rules are r, the ledger is empty and
\* the stored result is that of the model, as it was, against r; a call other
\* than setRules leaves the rules as they were when it was made.
C11_SetRulesResets ==
    /\ rules = last.asked
    /\ last.op = "setRules" =>
            /\ fieldsThatMayShowErrors(Cur) = {} /\ pristine(Cur)
            /\ validation = Fresh
            /\ validation = Result(check(NewValidator(Input, last.asked, <<>>, "en")))

\* The form rules have replaced the store rules on a held model: the result is
\* not the one the store rules give, and the ledger is empty.
C11_Witness ==
    /\ last.op = "setRules" /\ last.asked = FormRules /\ model # NoModel
    /\ rules = FormRules
    /\ validation # Result(check(NewValidator(Input, StoreRules, <<>>, "en")))
    /\ fieldsThatMayShowErrors(Cur) = {}

\* The places of the required-style (implicit) rules of a rule spec.
RequiredStyle(rs) ==
    {p \in UNION {{<<f, i>> : i \in 1..Len(rs[f])} : f \in DOMAIN rs} :
        rs[p[1]][p[2]].name \in ImplicitRules}

\* C12: an engine that holds no model has no listener; construction and every
\* later pass throw nothing (not even under a rule spec that names a missing
\* rule) and evaluate the rules against absent values: every field with a
\* required-style rule has an error, isValid is false, errorCount is the number
\* of required-style rules, and the ledger of the new engine is empty.
C12_NoModelAllRequiredFail ==
    model = NoModel =>
        /\ ~last.threw
        /\ listeners = {} /\ disposer = NoModel
        /\ validation = Result(check(NewValidator(<<>>, rules, <<>>, "en")))
        /\ \A p \in RequiredStyle(rules) : p[1] \in DOMAIN errors(Cur)
        /\ RequiredStyle(rules) # {} => ~isValid(Cur)
        /\ errorCount(Cur) = Cardinality(RequiredStyle(rules))
        /\ last.op = "new" => fieldsThatMayShowErrors(Cur) = {} /\ pristine(Cur)

\* The engine of the test 'has errors with no model set', just constructed.
C12_Witness ==
    /\ last.op = "new" /\ model = NoModel /\ rules = StoreRules
    /\ ~isValid(Cur) /\ errorCount(Cur) = 2
    /\ errors(Cur)["name"][1] = "The name field is required."
    /\ errors(Cur)["birthday"][1] = "The birthday field is required when age is empty."
    /\ fieldsThatMayShowErrors(Cur) = {} /\ listeners = {}

\* The last step ran a validation pass, or began one that threw.
PassRan ==
    \/ last.op \in {"reset", "setRules", "validateField", "validateForm"}
    \/ last.op = "setModel" /\ last.from # last.target
    \/ ~manual /\ WroteHeld({"update", "add"})

\* C13: a call throws exactly when the pass it runs throws (setModel, setRules,
\* reset, validateField, validateForm and the write of a field of an observed
\* model: nothing catches the error), and a step whose call threw leaves the
\* stored result, and with it isValid, as it was.
C13_ErrorPropagates ==
    /\ [](last.threw <=> (PassRan /\ Throws(Input, rules)))
    /\ [][last'.threw => validation' = validation /\ checked' = checked]_vars

\* The write of 12 into age, under the rules numeric|xyz, has thrown in the
\* writer; isValid is false as it was.
C13_Witness ==
    /\ last.threw /\ ~manual /\ WroteHeld({"update"}) /\ last.field = "age"
    /\ rules = BadRules
    /\ content[model]["age"] = Num(12)
    /\ ~isValid(Cur)

\* C14: a write to the map that fieldsThatMayShowErrors returned (set, delete,
\* clear) changes neither the ledger nor showErrorsOnField of any field: the
\* ledger changes only in a call of the engine or in a pass a write of the
\* model triggers.
C14_ViewIsReadOnly ==
    [][last'.op \in {"view.set", "view.delete", "view.clear"} =>
            /\ validatedFields' = validatedFields
            /\ \A f \in Fields : showErrorsOnField(Cur, f)' = showErrorsOnField(Cur, f)]_vars

\* C15: the engine listens to no model but the one it holds (setModel removes
\* the listener of the model it replaces, if there is one, and registers one on
\* the new model): a write of a model that is not held leaves the result, the
\* ledger and the dirty flag as they were, and a write of the held one runs a
\* pass that puts the field in the ledger.
C15_OnlyHeldModelObserved ==
    /\ [](/\ listeners \subseteq {model} \ {NoModel}
          /\ disposer \in listeners \cup {NoModel}
          /\ (~manual /\ model # NoModel) => listeners = {model} /\ disposer = model
          /\ (~manual /\ WroteHeld({"update", "add"})) =>
                checked = Fresh /\ last.field \in validatedFields)
    /\ [][(content' # content /\ last'.target # model') =>
            UNCHANGED <<validation, validatedFields, dirty, checked>>]_vars

\* The engine holds and observes the map; a field of the object, which is not
\* held, has been written: the field is not in the ledger and the stored
\* result is still that of the map.
C15_Witness ==
    /\ ~manual /\ last.op = "update" /\ last.target = "obj"
    /\ model = "map" /\ listeners = {"map"} /\ disposer = "map"
    /\ last.field \notin validatedFields
    /\ validation = Fresh

\* What a ValidationWrapper of the engine can be given.
WrapperProps ==
    [field : Fields, errorClassName : {"", "bad"}, errorsRenderer : ErrorsRenderers]

\* The wrapper renders nothing of an error: no class, no message.
RendersNoError(props) ==
    render(Cur, props) = [className |-> "null", errors |-> False]

\* C16 as claimed: right after construction, reset() or setModel(), whatever
\* model setModel was given, no wrapper renders an error.
C16_NothingRenderedAfterSetModel ==
    last.op \in {"new", "reset", "setModel"} =>
        \A props \in WrapperProps : RendersNoError(props)

\* C16 as amended: a wrapper renders the error class and the errors of its
\* field exactly when the field is in the ledger and has an error in the
\* stored result: the errors are all the messages of the field in order, one
\* div each, or what the errorsRenderer of the wrapper makes of all of them if
\* it has one; so no wrapper renders an error right after construction,
\* reset(), setRules() or a setModel() that was given another model than the
\* held one.
C16_RendersIffShownAndInError ==
    \A props \in WrapperProps :
        LET out == render(Cur, props)
            shown == showErrorsOnField(Cur, props.field) /\ props.field \in DOMAIN errors(Cur)
        IN  /\ out.className # "null" <=> shown
            /\ out.errors # False <=> shown
            /\ shown =>
                 LET msgs == errors(Cur)[props.field]
                 IN  /\ out.className \in {"invalid-field", "bad"}
                     /\ props.errorsRenderer = "" =>
                            /\ out.errors.t = "array"
                            /\ Len(out.errors.items) = Len(msgs)
                            /\ \A i \in 1..Len(msgs) :
                                    /\ out.errors.items[i].text = msgs[i]
                                    /\ out.errors.items[i].className = "invalid-msg"
                     /\ props.errorsRenderer = "count" =>
                            out.errors = Str("custom:" \o ToString(Len(msgs)))
                     /\ props.errorsRenderer = "nothing" => out.errors = Null
            /\ (\/ last.op \in {"new", "reset", "setRules"}
                \/ last.op = "setModel" /\ last.from # last.target) => RendersNoError(props)

\* reset() has run on an invalid model and nothing of an error is rendered.
C16_Witness ==
    /\ last.op = "reset" /\ model # NoModel /\ ~isValid(Cur)
    /\ \A props \in WrapperProps : RendersNoError(props)

\* C17: the provider passed to the constructor next to the config (by
\* validator, withValidator or new StoreModelValidator) is the provider the
\* engine consults, and the noop provider is consulted only when none was passed.
C17_GivenProviderIsConsulted ==
    /\ given # NoProvider => provider = given
    /\ provider = "noop" => given = NoProvider

\* The last step ran a pass to its end: construction or one of the calls.
PassDone == (PassRan \/ last.op = "new") /\ ~last.threw

\* The first two characters of a string, or all it has.
FirstTwo(str) == SubSeq(str, 1, IF Len(str) < 2 THEN Len(str) ELSE 2)

\* C18 as claimed: the validator of a pass is in the language named by the
\* first two characters of what language() of the engine's provider returns,
\* whatever it returns.
C18_LocaleIsFirstTwoChars ==
    PassDone => evaluated.lang = FirstTwo(language(Cur, provider))

\* C18 as amended: when language() of the engine's provider returns at least
\* two characters, the pass sets the language of validatorjs to the first two
\* and its validator is in that language, whatever other engines set before;
\* when it returns less, the pass leaves the language of validatorjs as it
\* found it and its validator is in that one.
C18_LocaleFromOwnLanguage ==
    /\ [](PassDone =>
            LET l == language(Cur, provider)
            IN  Len(l) >= 2 => evaluated.lang = SubSeq(l, 1, 2) /\ lang = SubSeq(l, 1, 2))
    /\ [][((PassRan /\ ~last.threw)' /\ Len(languages'[provider']) < 2) =>
            lang' = lang /\ evaluated'.lang = lang]_vars

\* The provider of the config was in German and is now in en-US; the form
\* has been validated in English.
C18_Witness ==
    /\ last.op = "validateForm" /\ provider = "config"
    /\ language(Cur, provider) = "en-US"
    /\ evaluated.lang = "en" /\ lang = "en"
    /\ errors(Cur) # <<>>

\* The messages the stored result has for a field, none if it has no error.
Messages(f) == IF f \in DOMAIN errors(Cur) THEN errors(Cur)[f] ELSE <<>>

\* C19 as claimed: the first failing rule of a field stops its evaluation, so
\* a field has at most one message.
C19_AtMostOneMessage ==
    \A f \in Fields : Len(Messages(f)) <= 1

\* C19 as amended: when a pass has run, each field has one message for every
\* rule of its own that the model fails, in the order the rules are declared.
C19_EveryFailingRuleReports ==
    PassDone =>
        \A f \in DOMAIN rules :
            LET failing == {i \in 1..Len(rules[f]) : <<f, i>> \in FailingRules(Input, rules)}
                Kth(k) == CHOOSE i \in failing : Cardinality({j \in failing : j <= i}) = k
            IN  /\ Len(Messages(f)) = Cardinality(failing)
                /\ \A k \in 1..Len(Messages(f)) :
                        Messages(f)[k] = Render(rules[f][Kth(k)], f)

\* age "hundred" fails both numeric and max:99, and has the two messages.
C19_Witness ==
    /\ PassDone /\ model = "obj" /\ rules = StoreRules
    /\ content[model]["age"] = Str("hundred")
    /\ Messages("age") =
          <<"The age must be a number.", "The age may not be greater than 99.">>

\* C20: the validator of a pass has been given, for every key of the custom
\* errors and of the attribute names of the config, what the provider
\* translates the key to now: the key itself with the noop provider, and in no
\* case the value the config has for the key.
C20_KeysAreTranslated ==
    PassDone =>
        /\ evaluated.customMessages =
                [k \in DOMAIN customErrors |-> translate(Cur, provider, k)]
        /\ evaluated.attributeNames =
                [k \in DOMAIN attributeNames |-> translate(Cur, provider, k)]
        /\ \A k \in DOMAIN customErrors :
                /\ provider = "noop" => evaluated.customMessages[k] = k
                /\ evaluated.customMessages[k] # customErrors[k]
        /\ \A k \in DOMAIN attributeNames :
                /\ provider = "noop" => evaluated.attributeNames[k] = k
                /\ evaluated.attributeNames[k] # attributeNames[k]

\* After a change of language the empty name has got the custom message of
\* 'required' as the provider translates the key now.
C20_Witness ==
    /\ last.op = "validateField" /\ last.field = "name" /\ model # NoModel
    /\ provider = "config" /\ language(Cur, provider) = "en-US"
    /\ customErrors = CustomErrors /\ attributeNames = AttributeNames
    /\ evaluated.customMessages["required"] = "en-US:required"
    /\ evaluated.attributeNames["name"] = "en-US:name"
    /\ errors(Cur)["name"] = <<"en-US:required">>

\* The last step was a change of one of the given kinds that the model reported
\* to the listener of the engine.
Notified(kinds) == ~manual /\ WroteHeld(kinds)

\* C21: a change the subscribed model reports is routed by its kind and name:
\* an update or add with a field name runs exactly one pass and marks that
\* field, as validateField(name) does; an update or add without a name runs
\* exactly one pass and marks the fields in error, as validateForm() does; any
\* other kind (delete, splice) runs no pass and leaves result and ledger alone.
C21_ChangesAreRouted ==
    /\ [](Notified({"update", "add"}) =>
            last.passes = 1 /\ validation = Fresh /\ checked = validation)
    /\ [](Notified({"delete", "splice"}) => last.passes = 0)
    /\ [][/\ last'.op \in {"update", "add"} /\ last'.target = model /\ ~manual
             => validatedFields' =
                  IF last'.field # ""
                  THEN validatedFields \cup {last'.field}
                  ELSE validatedFields \cup DOMAIN validation'.errors
          /\ last'.op \in {"delete", "splice"}
             => UNCHANGED <<validation, validatedFields, dirty, checked>>]_vars

\* An update without a name (an element of the array model was assigned) has run
\* the form pass: the fields in error are marked, all at once.
C21_Witness ==
    /\ Notified({"update"}) /\ last.field = "" /\ model = ArrayModel
    /\ last.passes = 1
    /\ validatedFields = DOMAIN validation.errors
    /\ validatedFields = {"name", "birthday"}

\* C22: in every reachable state pristine is true exactly when the ledger is
\* empty: the stored dirty flag is true exactly when a field is marked.
C22_PristineIffLedgerEmpty ==
    /\ pristine(Cur) <=> fieldsThatMayShowErrors(Cur) = {}
    /\ dirty = "true" <=> validatedFields # {}

\* A write of the held model has marked the first field: the engine is dirty.
C22_Witness ==
    /\ Notified({"update", "add"})
    /\ validatedFields = {last.field}
    /\ ~pristine(Cur)

\* C23: a call of validateField(f) that returns changes the ledger by inserting
\* f and nothing else, whether or not f has an error, a rule or a value; a call
\* of validateForm() that returns changes it by inserting exactly the fields
\* with an error in the result it has just computed, so without errors the
\* ledger, and with it pristine, stay as they were.
C23_PassesInsertExactly ==
    /\ [](last.op = "validateForm" /\ ~last.threw => validation = Fresh)
    /\ [][/\ last'.op = "validateField" /\ ~last'.threw
             => validatedFields' = validatedFields \cup {last'.field}
          /\ last'.op = "validateForm" /\ ~last'.threw
             => /\ validatedFields' = validatedFields \cup DOMAIN validation'.errors
                /\ validation'.errorCount = 0 => dirty' = dirty]_vars

\* validateForm() on a model without errors has left a pristine engine pristine.
C23_Witness ==
    /\ last.op = "validateForm" /\ last.ret
    /\ model = "obj" /\ isValid(Cur)
    /\ validatedFields = {} /\ pristine(Cur)

\* The last step was one of the operations that clear the ledger: reset(),
\* setRules(r), or setModel(m) with a model other than the one held.
Cleared ==
    \/ last.op \in {"reset", "setRules"}
    \/ last.op = "setModel" /\ last.from # last.target

\* C24: no step other than a clearing one takes a field out of the ledger: a
\* field once marked stays marked through every validateField, validateForm
\* and write of the model, also after its error has been corrected.
C24_LedgerOnlyGrows ==
    [][Cleared' \/ validatedFields \subseteq validatedFields']_vars

\* The name holds a value and has no error, and a pass for the age has run
\* since it was marked: the name is still marked.
C24_Witness ==
    /\ last.op \in {"validateField", "update"} /\ last.field = "age"
    /\ model = "obj" /\ ~manual
    /\ content[model]["name"] = Str("Godzilla")
    /\ "name" \in validatedFields
    /\ "name" \notin DOMAIN validation.errors

\* C25: a call of validateField(f) that returns gives true exactly when the
\* evaluation of the whole current model has no error for f, whatever errors
\* the other fields have: true is possible while isValid is false, and false
\* is given only for a field that has an error of its own.
C25_FieldReturnIsOwnError ==
    last.op = "validateField" /\ ~last.threw =>
        /\ last.ret <=> last.field \notin DOMAIN Fresh.errors
        /\ last.ret <=> last.field \notin DOMAIN errors(Cur)

\* validateField("age") has returned true while the name is in error.
C25_Witness ==
    /\ last.op = "validateField" /\ last.field = "age" /\ last.ret
    /\ model = "obj"
    /\ DOMAIN errors(Cur) = {"name"}
    /\ ~isValid(Cur)

\* The operations of the engine, as opposed to the writes of a model.
EngineOps == {"setModel", "setRules", "reset", "validateField", "validateForm"}

\* C26: no operation of the engine changes a field of a model: setModel (which
\* subscribes and unsubscribes), setRules, reset, validateField and
\* validateForm leave the content of every model as it was, a write of a model
\* changes the written field of that model only, whatever pass it triggers,
\* and the plain structure a map is converted into holds the map's values.
C26_ModelContentUntouched ==
    /\ [](isObservableMap(model) => Input = content[model])
    /\ [][/\ last'.op \in EngineOps => content' = content
          /\ last'.op \notin EngineOps =>
                \A m \in DOMAIN content :
                    /\ m # last'.target => content'[m] = content[m]
                    /\ \A k \in (DOMAIN content[m] \cup DOMAIN content'[m]) \ {last'.field} :
                          /\ k \in DOMAIN content[m] /\ k \in DOMAIN content'[m]
                          /\ content'[m][k] = content[m][k]]_vars

\* reset() has run a pass over the map, converted for it, and the map still
\* holds its entry.
C26_Witness ==
    /\ last.op = "reset" /\ isObservableMap(model)
    /\ DOMAIN content[model] = {"name"}
    /\ content[model]["name"] = Str("Godzilla")
    /\ Input = [k \in {"name"} |-> Str("Godzilla")]
    /\ checked = Fresh

\* C27: the engine has at most one listener registered, and only on the model
\* it holds. Construction and a setModel(m) with a new model leave a listener
\* exactly when m is a model and config.manual is false at that moment; no
\* other step registers or removes one, so a listener exists exactly when a
\* model is held and manual was false when that model was set.
C27_OneSubscriptionOnHeldModel ==
    /\ [](/\ Cardinality(listeners) <= 1
          /\ listeners \subseteq {model} \ {NoModel}
          /\ disposer = NoModel <=> listeners = {}
          /\ disposer # NoModel => listeners = {disposer})
    /\ [](last.op = "new" => (listeners # {} <=> model # NoModel /\ ~manual))
    /\ [][IF last'.op = "setModel" /\ last'.from # last'.target
          THEN listeners' # {} <=> model' # NoModel /\ ~manual
          ELSE listeners' = listeners /\ disposer' = disposer]_vars

\* The model was set while manual was false and manual has been set since: the
\* listener is still registered, and a setModel(null) has not happened.
C27_Witness ==
    /\ manual /\ last.op = "update"
    /\ model = "obj" /\ listeners = {"obj"} /\ disposer = "obj"
    /\ last.passes = 1

\* C28: setModel(m) with the model the engine already holds does nothing: no
\* pass runs and the stored result, the ledger, the dirty flag and the listener
\* are as before, also when fields are marked and when the stored result is
\* out of date because the model was written without the engine being told.
C28_SameModelIsNoOp ==
    [][last'.op = "setModel" /\ last'.from = last'.target =>
        /\ last'.passes = 0 /\ ~last'.threw
        /\ UNCHANGED <<model, disposer, listeners, validation, validatedFields,
                       dirty, rules, manual, content, checked, evaluated,
                       touched, lang>>]_vars

\* setModel was given the held model while a field was marked and the stored
\* result was out of date: the field is still marked, the result still stale.
C28_Witness ==
    /\ last.op = "setModel" /\ last.from = last.target /\ last.target = model
    /\ model = "obj" /\ manual /\ listeners = {}
    /\ validatedFields = {"name"} /\ ~pristine(Cur)
    /\ validation # Fresh

\* C29: when the pass throws inside validateField(f) or validateForm(), called
\* directly or by the listener for a write of the model, the engine is left as
\* it was before the call: no check() has returned, the stored result, the
\* ledger and the dirty flag are unchanged (f is not marked), and so are the
\* model held, the listener and the rules.
C29_FailedPassChangesNothing ==
    [][last'.threw /\ last'.op \in {"validateField", "validateForm", "update", "add"} =>
        /\ last'.passes = 0
        /\ UNCHANGED <<validation, validatedFields, dirty, model, disposer,
                       listeners, rules, manual, checked, evaluated, touched>>]_vars

\* validateField("name") has thrown over the rule xyz of the age: the name is
\* not marked and the engine is pristine as before.
C29_Witness ==
    /\ last.threw /\ last.op = "validateField" /\ last.field = "name"
    /\ rules = BadRules /\ model = "obj"
    /\ content[model]["age"] = Num(12)
    /\ validatedFields = {} /\ pristine(Cur)

\* C30: a setModel or setRules whose pass throws is not rolled back. After a
\* throwing setModel(m) with a new model m, getModel() is m and the listener,
\* if config.manual is false, is on m, while the stored result, the ledger and
\* the dirty flag are those of before the call; after a throwing setRules(r)
\* the rules are r, with result, ledger and dirty flag those of before.
C30_FailedSetIsNotRolledBack ==
    /\ [](last.threw /\ last.op = "setModel" =>
            /\ getModel(Cur) = last.target /\ last.from # last.target
            /\ listeners = IF manual \/ model = NoModel THEN {} ELSE {model})
    /\ [](last.threw /\ last.op = "setRules" => rules = last.asked)
    /\ [][last'.threw /\ last'.op \in {"setModel", "setRules"} =>
            /\ last'.passes = 0
            /\ UNCHANGED <<validation, validatedFields, dirty, checked>>]_vars

\* setModel(obj) on an engine without a model has thrown: the object is held
\* and observed, and the stored result is still the one computed without a
\* model, which is not the result of any pass over the object.
C30_Witness ==
    /\ last.threw /\ last.op = "setModel" /\ last.from = NoModel
    /\ model = "obj" /\ listeners = {"obj"} /\ ~manual
    /\ rules = BadRules
    /\ content[model]["name"] = Str("Godzilla")
    /\ "name" \in DOMAIN validation.errors

\* The last step was an operation on another instance made from the same config.
OtherInstance == last.op \in {"other.setRules", "other.pass"}

\* C31: an operation on another instance, setRules included, leaves this
\* instance its rules, its ledger and its stored result, and its next pass
\* computes what it would have computed before: the result of its model
\* against the rules it had.
C31_InstancesAreIsolated ==
    /\ [](OtherInstance =>
            /\ rules = last.asked
            /\ Fresh = Result(check(NewValidator(Input, last.asked, <<>>, "en"))))
    /\ [][OtherInstance' =>
            UNCHANGED <<rules, validatedFields, dirty, validation, model,
                        listeners>>]_vars

====
